---- MODULE Spec2Model ----
(***************************************************************************)
(* Model of the HOS trip simulator of eldpro/trips/services/               *)
(* hos_simulator.py (class HOSCompliantTripSimulator).                     *)
(*                                                                         *)
(* Numbers.  The code computes in floating-point hours and miles; the      *)
(* model computes the same quantities as exact rationals over one common   *)
(* unit: one unit is 1/110 hour of an hour counter and 1/2 mile of a       *)
(* distance, so that 0.5 h = 55 units, 1 mile = 2 units and one unit of    *)
(* driving time covers one unit of distance at 55 mph.  datetime values    *)
(* are pairs <<seconds, microseconds>> counted from midnight of day 0 of   *)
(* the model's calendar (microsecond resolution, as datetime has);         *)
(* timedelta(hours=) rounds to the microsecond as Python does.  A          *)
(* coordinate is a pair <<longitude, latitude>> in hundredths of a degree; *)
(* the lat/lng fields of events and stops carry no control flow and are    *)
(* left out.                                                               *)
(***************************************************************************)
EXTENDS Integers, Sequences, FiniteSets, TLC

(***************************************************************************)
(* Units                                                                   *)
(***************************************************************************)
AVG_SPEED_MPH == 55
MileUnits == 2
HourUnits == MileUnits * AVG_SPEED_MPH
SecondsPerDay == 86400
MicrosPerSecond == 1000000

(***************************************************************************)
(* Bounds of the model: a leg distance (get_route's distance_miles) is     *)
(* 0..MaxLegSteps steps of 82.5 miles (1.5 hours of driving) each, or one  *)
(* of the two extra distances: 900 miles, and 1000 miles (a leg that ends  *)
(* on the fuel mark).                                                      *)
(***************************************************************************)
MaxLegSteps == 14
LegStepHalfMiles == 3 * AVG_SPEED_MPH
ExtraDistances == { 900 * MileUnits, 1000 * MileUnits }

LegDistances == { k * LegStepHalfMiles : k \in 0..MaxLegSteps } \cup ExtraDistances
\* the hour of a start_time argument (on day 0 of the calendar)
StartHours == {0, 6, 16}
\* current_cycle_hours of the request, in hours.
CycleInputs == {0, 65, 70}
\* the wall-clock date of the call, datetime.now().date(), is one of the
\* days 0..MaxWallClockDay of the calendar
MaxWallClockDay == 1
WallClockDates == 0..MaxWallClockDay

(***************************************************************************)
(* __init__: the HOS constants, in model units                             *)
(***************************************************************************)
MAX_DRIVING_HOURS == 11 * HourUnits
MAX_DUTY_WINDOW == 14 * HourUnits
MIN_OFF_DUTY == 10 * HourUnits
BREAK_REQUIRED_AFTER == 8 * HourUnits
BREAK_DURATION == HourUnits \div 2
MAX_WEEKLY_HOURS == 70 * HourUnits
FUEL_INTERVAL_MILES == 1000 * MileUnits
FUEL_DURATION == HourUnits \div 2
PICKUP_DURATION == 1 * HourUnits
DROPOFF_DURATION == 1 * HourUnits

Min2(a, b) == IF a <= b THEN a ELSE b
Min3(a, b, c) == Min2(a, Min2(b, c))

\* hours * AVG_SPEED_MPH, hours in hour units, result in distance units
MilesOfHours(h) == (h * AVG_SPEED_MPH * MileUnits) \div HourUnits
\* miles / AVG_SPEED_MPH, miles in distance units, result in hour units
HoursOfMiles(m) == (m * HourUnits) \div (AVG_SPEED_MPH * MileUnits)

(***************************************************************************)
(* datetime / timedelta                                                    *)
(***************************************************************************)
Norm(s, u) == << s + (u \div MicrosPerSecond), u % MicrosPerSecond >>
TAdd(a, b) == Norm(a[1] + b[1], a[2] + b[2])
TSub(a, b) == Norm(a[1] - b[1], a[2] - b[2])
TLess(a, b) == a[1] < b[1] \/ (a[1] = b[1] /\ a[2] < b[2])
TLeq(a, b) == a = b \/ TLess(a, b)
TZero == << 0, 0 >>

\* timedelta(hours=h): h/110 hours = h*360/11 seconds, rounded to the
\* nearest microsecond (no ties occur: 11 is odd).
timedelta_hours(h) ==
    LET n == h * 360
        r == n % 11
    IN  Norm(n \div 11, (2 * r * MicrosPerSecond + 11) \div 22)

\* datetime.date(), as the number of the day in the model's calendar
DateOf(t) == t[1] \div SecondsPerDay
\* strftime('%H:%M')
FormatHM(t) ==
    LET sod == t[1] % SecondsPerDay
    IN  << sod \div 3600, (sod % 3600) \div 60 >>
\* datetime.combine(t.date(), datetime.max.time()) = 23:59:59.999999
DayEnd(t) == << DateOf(t) * SecondsPerDay + (SecondsPerDay - 1), MicrosPerSecond - 1 >>

\* round(x / d) with ties to even, as Python's round()
RoundHalfEven(x, d) ==
    LET q == x \div d
        r == x % d
    IN  IF 2 * r < d THEN q
        ELSE IF 2 * r > d THEN q + 1
        ELSE IF q % 2 = 0 THEN q ELSE q + 1

\* round(hours, 1) of an hour counter: tenths of an hour
RoundHours1(h) == RoundHalfEven(h * 10, HourUnits)
\* round(miles, 0) of a distance
RoundMiles0(m) == RoundHalfEven(m, MileUnits)
\* round(duration, 1) of a timestamp difference, in tenths of an hour
\* (one tenth of an hour is 360 s)
RoundDur1(d) ==
    LET q == d[1] \div 360
        r == d[1] % 360
    IN  IF r < 180 THEN q
        ELSE IF r > 180 \/ d[2] > 0 THEN q + 1
        ELSE IF q % 2 = 0 THEN q ELSE q + 1

VARIABLES
    pc,                 \* position in simulate_trip
    input,              \* the arguments, the provider's two responses, the wall-clock date
    routes,             \* leg1 and leg2 of simulate_trip, and the calls made for them
    simulation,         \* the simulation dict
    leg,                \* locals of _simulate_leg
    ghost,              \* per event: counters at append time and the activity's length
    daily_logs,         \* _generate_daily_logs: the dict, in insertion order
    idx,                \* _generate_daily_logs: the loop index i (1-based)
    report              \* the returned dict

vars == << pc, input, routes, simulation, leg, ghost, daily_logs, idx, report >>

(***************************************************************************)
(* _get_day_number, _add_event                                             *)
(***************************************************************************)
\* the day counted in 24-hour periods elapsed since trip_start_time, not in
\* calendar dates
_get_day_number_Elapsed(current_time, trip_start_time) ==
    (TSub(current_time, trip_start_time)[1] \div SecondsPerDay) + 1

_get_day_number(current_time, trip_start_time) ==
    (DateOf(current_time) - DateOf(trip_start_time)) + 1

_add_event(sim, status, description) ==
    [sim EXCEPT !.events = Append(@,
        [ time        |-> sim.current_time,
          status      |-> status,
          description |-> description,
          location    |-> description,
          day         |-> _get_day_number(sim.current_time, sim.trip_start_time) ])]

\* what the ghost trace keeps of an event: the counters when it is appended,
\* and the hours and miles of the activity that follows it
GhostEntry(sim, hours, miles) ==
    [ duty    |-> sim.current_duty_hours,
      driving |-> sim.current_driving_hours,
      cycle   |-> sim.current_cycle_hours,
      hours   |-> hours,
      miles   |-> miles ]

(***************************************************************************)
(* _add_fuel_stop, _take_break, _take_rest                                 *)
(***************************************************************************)
\* a fuel stop that counts as a break: it resets the driving hours
_add_fuel_stop_ResetsDriving(sim) ==
    LET s1 == _add_event(sim, "on_duty", "Fuel Stop")
    IN  [s1 EXCEPT
            !.fuel_stops = Append(@, [ distance |-> RoundMiles0(sim.miles_driven),
                                       duration |-> FUEL_DURATION ]),
            !.current_time = TAdd(@, timedelta_hours(FUEL_DURATION)),
            !.current_duty_hours = @ + FUEL_DURATION,
            !.current_cycle_hours = @ + FUEL_DURATION,
            !.current_driving_hours = 0]

_add_fuel_stop(sim) ==
    LET s1 == _add_event(sim, "on_duty", "Fuel Stop")
    IN  [s1 EXCEPT
            !.fuel_stops = Append(@, [ distance |-> RoundMiles0(sim.miles_driven),
                                       duration |-> FUEL_DURATION ]),
            !.current_time = TAdd(@, timedelta_hours(FUEL_DURATION)),
            !.current_duty_hours = @ + FUEL_DURATION,
            !.current_cycle_hours = @ + FUEL_DURATION]

_take_break(sim) ==
    LET s1 == _add_event(sim, "on_duty", "30-min Break")
    IN  [s1 EXCEPT
            !.break_stops = Append(@, [ time     |-> FormatHM(sim.current_time),
                                        duration |-> BREAK_DURATION ]),
            !.current_time = TAdd(@, timedelta_hours(BREAK_DURATION)),
            !.current_duty_hours = @ + BREAK_DURATION,
            !.current_cycle_hours = @ + BREAK_DURATION,
            !.current_driving_hours = 0]

\* a rest that accrues cycle hours, as a break does
_take_rest_AccruesCycle(sim, duration) ==
    LET s1 == _add_event(sim, "sleeper_berth", "10-hour Rest")
    IN  [s1 EXCEPT
            !.rest_stops = Append(@, [ time     |-> FormatHM(sim.current_time),
                                       duration |-> duration,
                                       day      |-> _get_day_number(sim.current_time,
                                                                    sim.trip_start_time) ]),
            !.current_time = TAdd(@, timedelta_hours(duration)),
            !.current_cycle_hours = @ + duration,
            !.current_duty_hours = 0,
            !.current_driving_hours = 0]

\* a rest that starts a fresh cycle
_take_rest_ResetsCycle(sim, duration) ==
    LET s1 == _add_event(sim, "sleeper_berth", "10-hour Rest")
    IN  [s1 EXCEPT
            !.rest_stops = Append(@, [ time     |-> FormatHM(sim.current_time),
                                       duration |-> duration,
                                       day      |-> _get_day_number(sim.current_time,
                                                                    sim.trip_start_time) ]),
            !.current_time = TAdd(@, timedelta_hours(duration)),
            !.current_cycle_hours = 0,
            !.current_duty_hours = 0,
            !.current_driving_hours = 0]

\* a rest of 34 hours (a cycle restart) in place of the rest asked for
_take_rest_Restart(sim, duration) ==
    LET s1 == _add_event(sim, "sleeper_berth", "10-hour Rest")
    IN  [s1 EXCEPT
            !.rest_stops = Append(@, [ time     |-> FormatHM(sim.current_time),
                                       duration |-> duration,
                                       day      |-> _get_day_number(sim.current_time,
                                                                    sim.trip_start_time) ]),
            !.current_time = TAdd(@, timedelta_hours(34 * HourUnits)),
            !.current_duty_hours = 0,
            !.current_driving_hours = 0]

_take_rest(sim, duration) ==
    LET s1 == _add_event(sim, "sleeper_berth", "10-hour Rest")
    IN  [s1 EXCEPT
            !.rest_stops = Append(@, [ time     |-> FormatHM(sim.current_time),
                                       duration |-> duration,
                                       day      |-> _get_day_number(sim.current_time,
                                                                    sim.trip_start_time) ]),
            !.current_time = TAdd(@, timedelta_hours(duration)),
            !.current_duty_hours = 0,
            !.current_driving_hours = 0]

(***************************************************************************)
(* _simulate_leg: the pieces of one loop iteration                         *)
(***************************************************************************)
\* available_drive_time without its third term (the 8-hour boundary)
available_drive_time_NoBreakTerm(sim) ==
    Min2(MAX_DRIVING_HOURS - sim.current_driving_hours,
         MAX_DUTY_WINDOW - sim.current_duty_hours)

\* available_drive_time without its second term (the 14-hour window)
available_drive_time_NoDutyTerm(sim) ==
    Min2(MAX_DRIVING_HOURS - sim.current_driving_hours,
         BREAK_REQUIRED_AFTER - (sim.current_driving_hours % BREAK_REQUIRED_AFTER))

\* available_drive_time with a duty window of 16 hours
available_drive_time_SixteenHourWindow(sim) ==
    Min3(MAX_DRIVING_HOURS - sim.current_driving_hours,
         MAX_DUTY_WINDOW + 2 * HourUnits - sim.current_duty_hours,
         BREAK_REQUIRED_AFTER - (sim.current_driving_hours % BREAK_REQUIRED_AFTER))

\* lines 280-285
available_drive_time(sim) ==
    Min3(MAX_DRIVING_HOURS - sim.current_driving_hours,
         MAX_DUTY_WINDOW - sim.current_duty_hours,
         BREAK_REQUIRED_AFTER - (sim.current_driving_hours % BREAK_REQUIRED_AFTER))

\* drive_miles without the cap at remaining_distance
drive_miles_NoCap(sim, remaining_distance) ==
    MilesOfHours(available_drive_time(sim))

\* lines 288-289
drive_miles(sim, remaining_distance) ==
    Min2(MilesOfHours(available_drive_time(sim)), remaining_distance)

\* line 292
miles_since_fuel(sim, last_fuel_miles) == sim.miles_driven - last_fuel_miles

\* line 293
NeedFuel(sim, lg) ==
    miles_since_fuel(sim, lg.last_fuel_miles) + drive_miles(sim, lg.remaining_distance)
        >= FUEL_INTERVAL_MILES

\* a drive to the fuel stop of a whole interval, whatever was driven since
\* the last stop
drive_to_fuel_WholeInterval(sim, last_fuel_miles) == FUEL_INTERVAL_MILES

\* line 295
drive_to_fuel(sim, last_fuel_miles) ==
    FUEL_INTERVAL_MILES - miles_since_fuel(sim, last_fuel_miles)

\* lines 299-305 and 322-328: the DRIVING event and the counters it advances
DriveUpdate(sim, leg_type, hours, miles) ==
    LET s1 == _add_event(sim, "driving",
                         IF leg_type = "to_pickup" THEN "Driving (to_pickup)"
                                                   ELSE "Driving (to_dropoff)")
    IN  [s1 EXCEPT
            !.current_time = TAdd(@, timedelta_hours(hours)),
            !.current_driving_hours = @ + hours,
            !.current_duty_hours = @ + hours,
            !.current_cycle_hours = @ + hours,
            !.miles_driven = @ + miles]

\* lines 306-307 and 329-330
LegAdvance(lg, miles) ==
    [lg EXCEPT !.distance_covered_this_leg = @ + miles,
               !.remaining_distance = @ - miles]

\* lines 260-262: entry of _simulate_leg
EnterLeg(sim, distance, leg_type) ==
    [ distance                  |-> distance,
      leg_type                  |-> leg_type,
      remaining_distance        |-> distance,
      distance_covered_this_leg |-> 0,
      last_fuel_miles           |-> sim.miles_driven,
      phase                     |-> "rest" ]

\* the ghost marks of a leg's entry: the next event index and the odometer
GhostEnterLeg(g, sim) ==
    [g EXCEPT !.leg_first_event = Len(sim.events) + 1,
              !.leg_start_miles = sim.miles_driven]

NoLeg == [ distance |-> 0, leg_type |-> "none", remaining_distance |-> 0,
           distance_covered_this_leg |-> 0, last_fuel_miles |-> 0, phase |-> "rest" ]

(***************************************************************************)
(* get_route, _interpolate_coordinates, _haversine_distance                *)
(***************************************************************************)
\* the three locations of the request: (-118.0, 34.0), (-112.0, 33.6) and
\* (-96.8, 32.8)
CurrentLocation == << -11800, 3400 >>
PickupLocation == << -11200, 3360 >>
DropoffLocation == << -9680, 3280 >>

\* lines 107-121.  The model has no trigonometry: the great-circle distance
\* of the two coordinate pairs of the request is the value the code's
\* formula gives (345.57 and 879.79 miles), to the nearest half mile.
_haversine_distance(coord1, coord2) ==
    IF coord1 = coord2 THEN 0
    ELSE IF {coord1, coord2} = {CurrentLocation, PickupLocation} THEN 691
    ELSE IF {coord1, coord2} = {PickupLocation, DropoffLocation} THEN 1760
    ELSE 2447

\* lines 74-88: num_points + 1 points, the i-th at t = i / num_points
_interpolate_coordinates(start, end, num_points) ==
    [ n \in 1..(num_points + 1) |->
        [ lat |-> start[2] + ((end[2] - start[2]) * (n - 1)) \div num_points,
          lng |-> start[1] + ((end[1] - start[1]) * (n - 1)) \div num_points ] ]

\* what client.directions answers when it does not fail: the segment's
\* distance, its duration (read by nothing after get_route; the model takes
\* the provider to reckon with 55 mph), and a geometry of two points
ProviderResponse(provider, start_coords, end_coords) ==
    [ distance    |-> provider.distance,
      duration    |-> HoursOfMiles(provider.distance),
      coordinates |-> << start_coords, end_coords >> ]

\* lines 64-72: the fallback leg
FallbackRoute(start_coords, end_coords) ==
    LET distance == _haversine_distance(start_coords, end_coords)
    IN  [ distance_miles    |-> distance,
          duration_hours    |-> HoursOfMiles(distance),
          route_coordinates |-> _interpolate_coordinates(start_coords, end_coords, 20) ]

\* lines 47-61: the leg of the provider's answer
ProviderRoute(provider, start_coords, end_coords) ==
    LET route == ProviderResponse(provider, start_coords, end_coords)
    IN  [ distance_miles    |-> route.distance,
          duration_hours    |-> route.duration,
          route_coordinates |-> [ n \in DOMAIN route.coordinates |->
                                    [ lat |-> route.coordinates[n][2],
                                      lng |-> route.coordinates[n][1] ] ] ]

\* a get_route without the except clause: the provider's failure leaves it
\* as an exception
get_route_Raises(provider, start_coords, end_coords) ==
    IF provider.ok
    THEN [ route |-> ProviderRoute(provider, start_coords, end_coords),
           requests |-> 1, raised |-> FALSE ]
    ELSE [ route |-> FallbackRoute(start_coords, end_coords),
           requests |-> 1, raised |-> TRUE ]

\* lines 31-72.  The result carries, next to the returned dict, the number
\* of client.directions calls made and whether an exception left get_route.
get_route(provider, start_coords, end_coords) ==
    IF provider.ok
    THEN [ route |-> ProviderRoute(provider, start_coords, end_coords),
           requests |-> 1, raised |-> FALSE ]
    ELSE [ route |-> FallbackRoute(start_coords, end_coords),
           requests |-> 1, raised |-> FALSE ]

NoRoute == [ distance_miles |-> 0, duration_hours |-> 0, route_coordinates |-> << >> ]

(***************************************************************************)
(* Init: the arguments of simulate_trip, before line 132                   *)
(***************************************************************************)
\* an answer of the provider: a distance, or a failure
ProviderOutcomes ==
    { [ ok |-> TRUE, distance |-> d ] : d \in LegDistances }
        \cup { [ ok |-> FALSE, distance |-> 0 ] }

\* start_time: a datetime (on day 0), or None (as views.py passes it)
None == [ given |-> FALSE, date |-> 0, hour |-> 0 ]
StartTimeArgs == { [ given |-> TRUE, date |-> 0, hour |-> h ] : h \in StartHours } \cup { None }

Inputs ==
    { i \in [ provider1 : ProviderOutcomes, provider2 : ProviderOutcomes,
              current_cycle_hours : { c * HourUnits : c \in CycleInputs },
              start_time : StartTimeArgs,
              now_date : WallClockDates ] :
        i.start_time.given => i.now_date = 0 }

\* lines 132-133: start_time, or 06:00 of the wall-clock date
StartTimeOf(inp) ==
    IF inp.start_time.given
    THEN << (inp.start_time.date * 24 + inp.start_time.hour) * 3600, 0 >>
    ELSE << (inp.now_date * 24 + 6) * 3600, 0 >>

Init ==
    /\ pc = "start"
    /\ input \in Inputs
    /\ routes = [ leg1 |-> NoRoute, leg2 |-> NoRoute,
                  get_route_calls |-> 0, provider_requests |-> 0 ]
    /\ simulation = [ trip_start_time |-> TZero, current_time |-> TZero,
                      current_duty_hours |-> 0, current_driving_hours |-> 0,
                      current_cycle_hours |-> 0, miles_driven |-> 0, current_day |-> 1,
                      events |-> << >>, fuel_stops |-> << >>, rest_stops |-> << >>,
                      break_stops |-> << >> ]
    /\ leg = NoLeg
    /\ ghost = [ ev |-> << >>, leg_first_event |-> 1, leg_start_miles |-> 0 ]
    /\ daily_logs = << >>
    /\ idx = 1
    /\ report = [ done |-> FALSE ]

(***************************************************************************)
(* simulate_trip, lines 144-177: the simulation dict, the pre-work event,  *)
(* 'Trip Start', and the entry of leg 1                                    *)
(***************************************************************************)
\* lines 148-160: the simulation dict
InitialSimulation(start_time, midnight, current_cycle_hours) ==
    [ trip_start_time |-> start_time, current_time |-> midnight,
      current_duty_hours |-> 0, current_driving_hours |-> 0,
      current_cycle_hours |-> current_cycle_hours,
      miles_driven |-> 0, current_day |-> 1,
      events |-> << >>, fuel_stops |-> << >>, rest_stops |-> << >>,
      break_stops |-> << >> ]

\* midnight of a datetime's date (line 146)
MidnightOf(t) == << DateOf(t) * SecondsPerDay, 0 >>

\* a pre-work period that is logged whenever start_time >= midnight
AddPreWork_Always(sim, start_time, midnight) ==
    [_add_event(sim, "off_duty", "Off Duty (Pre-work)")
        EXCEPT !.current_time = start_time]

\* lines 162-165: the off-duty period from midnight to the start of work
AddPreWork(sim, start_time, midnight) ==
    IF TLess(midnight, start_time)
    THEN [_add_event(sim, "off_duty", "Off Duty (Pre-work)")
             EXCEPT !.current_time = start_time]
    ELSE sim

\* the whole hours between two datetimes, in hour units
HoursBetween(a, b) == ((b[1] - a[1]) * HourUnits) \div 3600

StartTrip ==
    /\ pc = "start"
    /\ LET start_time == StartTimeOf(input)
           r1 == get_route(input.provider1, CurrentLocation, PickupLocation)
           r2 == get_route(input.provider2, PickupLocation, DropoffLocation)
           midnight == MidnightOf(start_time)
           s0 == InitialSimulation(start_time, midnight, input.current_cycle_hours)
           s1 == AddPreWork(s0, start_time, midnight)
           s2 == _add_event(s1, "on_duty", "Trip Start")
           g1 == IF Len(s1.events) > 0
                 THEN << GhostEntry(s0, HoursBetween(midnight, s1.current_time), 0) >>
                 ELSE << >>
           g2 == Append(g1, GhostEntry(s1, 0, 0))
       IN  IF r1.raised
           THEN \* the exception of the first get_route leaves simulate_trip
                /\ routes' = [routes EXCEPT !.get_route_calls = 1,
                                            !.provider_requests = r1.requests]
                /\ pc' = "failed"
                /\ UNCHANGED << simulation, leg, ghost >>
           ELSE IF r2.raised
           THEN /\ routes' = [routes EXCEPT !.leg1 = r1.route,
                                            !.get_route_calls = 2,
                                            !.provider_requests = r1.requests + r2.requests]
                /\ pc' = "failed"
                /\ UNCHANGED << simulation, leg, ghost >>
           ELSE /\ routes' = [ leg1 |-> r1.route, leg2 |-> r2.route,
                               get_route_calls |-> 2,
                               provider_requests |-> r1.requests + r2.requests ]
                /\ simulation' = s2
                /\ leg' = EnterLeg(s2, r1.route.distance_miles, "to_pickup")
                /\ ghost' = GhostEnterLeg([ghost EXCEPT !.ev = g2], s2)
                /\ pc' = "leg"
    /\ UNCHANGED << input, daily_logs, idx, report >>

(***************************************************************************)
(* _simulate_leg, one loop iteration in up to three steps: the rest check  *)
(* (266-271), the break check (274-277), the drive (280-330).  leg.phase   *)
(* is the position inside the iteration.                                   *)
(***************************************************************************)
\* a loop that also stops when the 70-hour cycle is used up
LoopCondition_CycleCap(sim, lg) ==
    lg.remaining_distance > 0 /\ sim.current_cycle_hours < MAX_WEEKLY_HOURS

\* line 264: while remaining_distance > 0
LoopCondition(sim, lg) == lg.remaining_distance > 0

\* a rest check that lets a duty window of exactly 14 hours pass
NeedsRest_Strict(sim) == sim.current_duty_hours > MAX_DUTY_WINDOW

\* line 266
NeedsRest(sim) == sim.current_duty_hours >= MAX_DUTY_WINDOW

\* line 274
NeedsBreak(sim) == sim.current_driving_hours >= BREAK_REQUIRED_AFTER

\* inside an iteration, or at the loop condition when it holds
InLoop == pc = "leg" /\ (IF leg.phase = "rest" THEN LoopCondition(simulation, leg) ELSE TRUE)

TakeRest ==
    /\ InLoop
    /\ leg.phase = "rest"
    /\ NeedsRest(simulation)
    /\ simulation' = _take_rest(simulation, MIN_OFF_DUTY)
    /\ ghost' = [ghost EXCEPT !.ev = Append(@, GhostEntry(simulation, MIN_OFF_DUTY, 0))]
    /\ leg' = [leg EXCEPT !.phase = "break"]
    /\ UNCHANGED << pc, input, routes, daily_logs, idx, report >>

\* the rest check is passed: not needed, or done
PastRestCheck ==
    \/ leg.phase = "rest" /\ ~NeedsRest(simulation)
    \/ leg.phase = "break"

TakeBreak ==
    /\ InLoop
    /\ PastRestCheck
    /\ NeedsBreak(simulation)
    /\ simulation' = _take_break(simulation)
    /\ ghost' = [ghost EXCEPT !.ev = Append(@, GhostEntry(simulation, BREAK_DURATION, 0))]
    /\ leg' = [leg EXCEPT !.phase = "drive"]
    /\ UNCHANGED << pc, input, routes, daily_logs, idx, report >>

\* the break check is passed: not needed, or done
PastBreakCheck ==
    \/ PastRestCheck /\ ~NeedsBreak(simulation)
    \/ leg.phase = "drive"

\* lines 293-317: drive to the fuel stop, fuel, continue
DriveToFuel ==
    /\ InLoop
    /\ PastBreakCheck
    /\ NeedFuel(simulation, leg)
    /\ LET to_fuel == drive_to_fuel(simulation, leg.last_fuel_miles)
           hours == HoursOfMiles(to_fuel)
           s1 == DriveUpdate(simulation, leg.leg_type, hours, to_fuel)
           s2 == _add_fuel_stop(s1)
       IN  /\ simulation' = s2
           /\ ghost' = [ghost EXCEPT !.ev =
                           @ \o << GhostEntry(simulation, hours, to_fuel),
                                   GhostEntry(s1, FUEL_DURATION, 0) >>]
           /\ leg' = [LegAdvance(leg, to_fuel) EXCEPT
                         !.last_fuel_miles = s2.miles_driven,
                         !.phase = "rest"]
    /\ UNCHANGED << pc, input, routes, daily_logs, idx, report >>

\* lines 319-330: the normal drive segment
DriveSegment ==
    /\ InLoop
    /\ PastBreakCheck
    /\ ~NeedFuel(simulation, leg)
    /\ LET miles == drive_miles(simulation, leg.remaining_distance)
           hours == HoursOfMiles(miles)
       IN  /\ simulation' = DriveUpdate(simulation, leg.leg_type, hours, miles)
           /\ ghost' = [ghost EXCEPT !.ev = Append(@, GhostEntry(simulation, hours, miles))]
           /\ leg' = [LegAdvance(leg, miles) EXCEPT !.phase = "rest"]
    /\ UNCHANGED << pc, input, routes, daily_logs, idx, report >>

\* the loop condition of line 264 fails: _simulate_leg returns
LegReturns == pc = "leg" /\ leg.phase = "rest" /\ ~LoopCondition(simulation, leg)

(***************************************************************************)
(* simulate_trip, lines 179-192: the pickup, and the entry of leg 2        *)
(***************************************************************************)
\* a pickup that leaves the clock where it is
PickupActivity_NoClock(sim) ==
    LET s1 == _add_event(sim, "on_duty", "Pickup - Loading")
    IN  [s1 EXCEPT
            !.current_duty_hours = @ + PICKUP_DURATION,
            !.current_cycle_hours = @ + PICKUP_DURATION]

\* lines 179-183
PickupActivity(sim) ==
    LET s1 == _add_event(sim, "on_duty", "Pickup - Loading")
    IN  [s1 EXCEPT
            !.current_time = TAdd(@, timedelta_hours(PICKUP_DURATION)),
            !.current_duty_hours = @ + PICKUP_DURATION,
            !.current_cycle_hours = @ + PICKUP_DURATION]

Pickup ==
    /\ LegReturns
    /\ leg.leg_type = "to_pickup"
    /\ LET s2 == PickupActivity(simulation)
       IN  /\ simulation' = s2
           /\ leg' = EnterLeg(s2, routes.leg2.distance_miles, "to_dropoff")
           /\ ghost' = GhostEnterLeg(
                          [ghost EXCEPT !.ev = Append(@, GhostEntry(simulation, PICKUP_DURATION, 0))],
                          s2)
    /\ UNCHANGED << pc, input, routes, daily_logs, idx, report >>

(***************************************************************************)
(* simulate_trip, lines 194-198: the dropoff                               *)
(***************************************************************************)
\* lines 194-198
DropoffActivity(sim) ==
    LET s1 == _add_event(sim, "on_duty", "Dropoff - Unloading")
    IN  [s1 EXCEPT
            !.current_time = TAdd(@, timedelta_hours(DROPOFF_DURATION)),
            !.current_duty_hours = @ + DROPOFF_DURATION,
            !.current_cycle_hours = @ + DROPOFF_DURATION]

Dropoff ==
    /\ LegReturns
    /\ leg.leg_type = "to_dropoff"
    /\ simulation' = DropoffActivity(simulation)
    /\ ghost' = [ghost EXCEPT !.ev = Append(@, GhostEntry(simulation, DROPOFF_DURATION, 0))]
    /\ pc' = "complete"
    /\ UNCHANGED << input, routes, leg, daily_logs, idx, report >>

(***************************************************************************)
(* simulate_trip, lines 200-204: 'Trip Complete', then the daily logs      *)
(***************************************************************************)
TripComplete ==
    /\ pc = "complete"
    /\ simulation' = _add_event(simulation, "off_duty", "Trip Complete")
    /\ ghost' = [ghost EXCEPT !.ev = Append(@, GhostEntry(simulation, 0, 0))]
    /\ pc' = "logs"
    /\ daily_logs' = << >>
    /\ idx' = 1
    /\ UNCHANGED << input, routes, leg, report >>


(***************************************************************************)
(* _generate_daily_logs.  daily_logs is the dict in insertion order; the   *)
(* constant fields (driverName, carrierName, vehicleNumber) are left out,  *)
(* 'date' is the day count of DateOf.  A location is a tuple: the          *)
(* description, followed by "(continued)" in a continuation entry.  The    *)
(* totals are kept as exact durations until they are rounded.              *)
(***************************************************************************)
NewDailyLog(date, day) ==
    [ date |-> date, day |-> day, totalMiles |-> 0,
      dutyStatusChanges |-> << >>, remarks |-> << >>,
      totals |-> [ offDuty |-> TZero, sleeperBerth |-> TZero,
                   driving |-> TZero, onDuty |-> TZero ] ]

HasDay(logs, day) == \E k \in DOMAIN logs : logs[k].day = day

\* lines 432-448 and 501-518: 'if day not in daily_logs'
EnsureDay(logs, date, day) ==
    IF HasDay(logs, day) THEN logs ELSE Append(logs, NewDailyLog(date, day))

\* daily_logs[day]
LogOf(logs, day) == logs[CHOOSE k \in DOMAIN logs : logs[k].day = day]

\* daily_logs[day] = log
ReplaceDay(logs, day, log) ==
    [ k \in DOMAIN logs |-> IF logs[k].day = day THEN log ELSE logs[k] ]

\* int(duration * AVG_SPEED_MPH), duration a timestamp difference
IntMiles(d) == (d[1] * AVG_SPEED_MPH + (d[2] * AVG_SPEED_MPH) \div MicrosPerSecond) \div 3600

\* the if/elif chains of lines 470-480, 488-497 and 528-537
AddToTotals(log, status, duration) ==
    IF status = "off_duty"
    THEN [log EXCEPT !.totals.offDuty = TAdd(@, duration)]
    ELSE IF status = "sleeper_berth"
    THEN [log EXCEPT !.totals.sleeperBerth = TAdd(@, duration)]
    ELSE IF status = "driving"
    THEN [log EXCEPT !.totals.driving = TAdd(@, duration),
                     !.totalMiles = @ + IntMiles(duration)]
    ELSE IF status = "on_duty"
    THEN [log EXCEPT !.totals.onDuty = TAdd(@, duration)]
    ELSE log

\* lines 483-485
duration_today(event) == TSub(DayEnd(event.time), event.time)
\* the remainder counted from midnight, one microsecond after day_end
duration_tomorrow_FromMidnight(duration, today) ==
    TSub(duration, TAdd(today, << 0, 1 >>))
duration_tomorrow(duration, today) == TSub(duration, today)

\* lines 521-525
Continuation(event) ==
    [ time |-> << 0, 0 >>, status |-> event.status,
      location |-> << event.description, "(continued)" >> ]

InsertContinuation(log, event) ==
    [log EXCEPT !.dutyStatusChanges = << Continuation(event) >> \o @]

\* lines 450-460
AddDutyChange(log, event) ==
    [log EXCEPT
        !.dutyStatusChanges = Append(@, [ time |-> FormatHM(event.time),
                                          status |-> event.status,
                                          location |-> << event.description >> ]),
        !.remarks = Append(@, << FormatHM(event.time), event.description >>)]

\* the split with the remainder credited to the event's own day
SplitAtMidnight_SameDay(logs, event, next_event, duration) ==
    LET today == duration_today(event)
        tomorrow == duration_tomorrow(duration, today)
        next_day == next_event.day
        a == ReplaceDay(logs, event.day, AddToTotals(LogOf(logs, event.day), event.status, today))
        b == EnsureDay(a, DateOf(next_event.time), next_day)
        c == ReplaceDay(b, next_day, InsertContinuation(LogOf(b, next_day), event))
    IN  ReplaceDay(c, event.day, AddToTotals(LogOf(c, event.day), event.status, tomorrow))

\* lines 481-537: the event's span ends on another day
SplitAtMidnight(logs, event, next_event, duration) ==
    LET today == duration_today(event)
        tomorrow == duration_tomorrow(duration, today)
        next_day == next_event.day
        a == ReplaceDay(logs, event.day, AddToTotals(LogOf(logs, event.day), event.status, today))
        b == EnsureDay(a, DateOf(next_event.time), next_day)
        c == ReplaceDay(b, next_day, InsertContinuation(LogOf(b, next_day), event))
    IN  ReplaceDay(c, next_day, AddToTotals(LogOf(c, next_day), event.status, tomorrow))

\* lines 428-537: the loop body for events[i]
LogEvent(logs, events, i) ==
    LET event == events[i]
        day == event.day
        l1 == EnsureDay(logs, DateOf(event.time), day)
        l2 == ReplaceDay(l1, day, AddDutyChange(LogOf(l1, day), event))
    IN  IF i < Len(events)
        THEN LET next_event == events[i + 1]
                 duration == TSub(next_event.time, event.time)
             IN  IF next_event.day = day
                 THEN ReplaceDay(l2, day, AddToTotals(LogOf(l2, day), event.status, duration))
                 ELSE SplitAtMidnight(l2, event, next_event, duration)
        ELSE l2

ProcessEvent ==
    /\ pc = "logs"
    /\ idx <= Len(simulation.events)
    /\ daily_logs' = LogEvent(daily_logs, simulation.events, idx)
    /\ idx' = idx + 1
    /\ UNCHANGED << pc, input, routes, simulation, leg, ghost, report >>

\* lines 539-542
RoundTotals(logs) ==
    [ k \in DOMAIN logs |->
        [logs[k] EXCEPT !.totals = [ key \in DOMAIN logs[k].totals |->
                                        RoundDur1(logs[k].totals[key]) ]] ]

\* lines 209-245
BuildReport(sim, logs, leg1, leg2) ==
    [ done |-> TRUE,
      route |-> [ distance_miles |-> (leg1.distance_miles + leg2.distance_miles) * 5,
                  duration_hours |-> RoundHours1(HoursOfMiles(leg1.distance_miles
                                                                + leg2.distance_miles)),
                  route_coordinates |-> leg1.route_coordinates \o leg2.route_coordinates ],
      stops |-> [ fuel_stops |-> sim.fuel_stops,
                  rest_stops |-> sim.rest_stops,
                  break_stops |-> sim.break_stops ],
      timeline |-> [ start_time |-> FormatHM(sim.trip_start_time),
                     estimated_completion |-> FormatHM(sim.current_time),
                     total_days |-> Len(logs) ],
      hos_summary |-> [ remaining_70hr_cycle |-> MAX_WEEKLY_HOURS - sim.current_cycle_hours,
                        used_70hr_cycle |-> sim.current_cycle_hours,
                        driving_time_used |-> RoundHours1(sim.current_driving_hours),
                        on_duty_time_used |-> RoundHours1(sim.current_duty_hours) ],
      logs |-> logs ]

\* the loop of line 428 is over: the totals are rounded in the list that
\* _generate_daily_logs returns (539-544), and simulate_trip returns (207-245)
ReturnReport ==
    /\ pc = "logs"
    /\ idx > Len(simulation.events)
    /\ pc' = "done"
    /\ report' = BuildReport(simulation, RoundTotals(daily_logs), routes.leg1, routes.leg2)
    /\ UNCHANGED << input, routes, simulation, leg, ghost, daily_logs, idx >>

(***************************************************************************)
(* simulate_trip as a function of its arguments and the provider's         *)
(* responses: the same operators, applied from the first line to the last  *)
(***************************************************************************)
RECURSIVE _simulate_leg(_, _)
\* lines 264-332: the loop, from the loop condition on
_simulate_leg(sim, lg) ==
    IF ~LoopCondition(sim, lg) THEN sim
    ELSE LET s1 == IF NeedsRest(sim) THEN _take_rest(sim, MIN_OFF_DUTY) ELSE sim
             s2 == IF NeedsBreak(s1) THEN _take_break(s1) ELSE s1
         IN  IF NeedFuel(s2, lg)
             THEN LET to_fuel == drive_to_fuel(s2, lg.last_fuel_miles)
                      s3 == DriveUpdate(s2, lg.leg_type, HoursOfMiles(to_fuel), to_fuel)
                      s4 == _add_fuel_stop(s3)
                  IN  _simulate_leg(s4, [LegAdvance(lg, to_fuel) EXCEPT
                                            !.last_fuel_miles = s4.miles_driven])
             ELSE LET miles == drive_miles(s2, lg.remaining_distance)
                  IN  _simulate_leg(DriveUpdate(s2, lg.leg_type, HoursOfMiles(miles), miles),
                                    LegAdvance(lg, miles))

RECURSIVE LogEventsFrom(_, _, _)
\* line 428: the loop over the events, from index i on
LogEventsFrom(logs, events, i) ==
    IF i > Len(events) THEN logs
    ELSE LogEventsFrom(LogEvent(logs, events, i), events, i + 1)

\* lines 423-544
_generate_daily_logs(events) == RoundTotals(LogEventsFrom(<< >>, events, 1))

\* lines 144-201: the simulation dict after 'Trip Complete'
SimulationOf(inp, leg1, leg2) ==
    LET start_time == StartTimeOf(inp)
        midnight == MidnightOf(start_time)
        s0 == InitialSimulation(start_time, midnight, inp.current_cycle_hours)
        s1 == _add_event(AddPreWork(s0, start_time, midnight), "on_duty", "Trip Start")
        s2 == _simulate_leg(s1, EnterLeg(s1, leg1.distance_miles, "to_pickup"))
        s3 == PickupActivity(s2)
        s4 == _simulate_leg(s3, EnterLeg(s3, leg2.distance_miles, "to_dropoff"))
    IN  _add_event(DropoffActivity(s4), "off_duty", "Trip Complete")

\* lines 123-245: the returned dict
simulate_trip(inp) ==
    LET r1 == get_route(inp.provider1, CurrentLocation, PickupLocation)
        r2 == get_route(inp.provider2, PickupLocation, DropoffLocation)
        sim == SimulationOf(inp, r1.route, r2.route)
    IN  BuildReport(sim, _generate_daily_logs(sim.events), r1.route, r2.route)

Next ==
    \/ StartTrip
    \/ TakeRest
    \/ TakeBreak
    \/ DriveToFuel
    \/ DriveSegment
    \/ Pickup
    \/ Dropoff
    \/ TripComplete
    \/ ProcessEvent
    \/ ReturnReport

Spec == Init /\ [][Next]_vars

\* simulate_trip is sequential code: a step that can be taken is taken.
\* The calls of this specification are those of the request layer (no
\* start_time) on day 0, with a provider that answers.
FairInit ==
    /\ Init
    /\ input.start_time = None
    /\ input.now_date = 0
    /\ input.provider1.ok
    /\ input.provider2.ok

FairSpec == FairInit /\ [][Next]_vars /\ WF_vars(Next)


(***************************************************************************)
(* Properties                                                              *)
(***************************************************************************)
\* the run in steps returns what simulate_trip, as a function, returns
StepsAgreeWithFunction ==
    report.done =>
        /\ report = simulate_trip(input)
        /\ simulation = SimulationOf(input, routes.leg1, routes.leg2)

Events == simulation.events
NEvents == Len(simulation.events)
IsDriving(j) == Events[j].status = "driving"
IsOnDuty(j) == Events[j].status = "on_duty"

\* the ghost trace runs parallel to the event log
GhostParallel == Len(ghost.ev) = NEvents

RECURSIVE DrivingMiles(_, _)
\* the miles of the DRIVING events j..n
DrivingMiles(j, n) ==
    IF j > n THEN 0
    ELSE (IF IsDriving(j) THEN ghost.ev[j].miles ELSE 0) + DrivingMiles(j + 1, n)

\* C1: when _simulate_leg returns, the miles of the DRIVING segments it
\* appended (normal and drive-to-fuel) add up to the leg's distance, and
\* miles_driven has grown by exactly that distance.
C1_LegDrivingSumsToDistance ==
    LegReturns =>
        /\ GhostParallel
        /\ DrivingMiles(ghost.leg_first_event, NEvents) = leg.distance
        /\ simulation.miles_driven = ghost.leg_start_miles + leg.distance

\* a leg of more than 1000 miles has returned, with a fuel stop inside it
C1_Witness ==
    /\ LegReturns
    /\ leg.distance > FUEL_INTERVAL_MILES
    /\ \E j \in ghost.leg_first_event..NEvents : Events[j].description = "Fuel Stop"
    /\ \E j \in ghost.leg_first_event..NEvents : IsDriving(j) /\ ghost.ev[j].miles > 0

\* C2: at the moment any event is appended to the event log,
\* current_duty_hours is at most 14.
C2_DutyAtMost14AtEveryEvent ==
    \A j \in DOMAIN ghost.ev : ghost.ev[j].duty <= MAX_DUTY_WINDOW

\* C3: whenever current_duty_hours has reached 14 or more, the next event
\* appended is the 10-hour sleeper-berth rest, also at the end of a leg just
\* before Pickup or Dropoff.
C3_RestFollowsFourteenHours ==
    \A j \in DOMAIN ghost.ev :
        (j <= NEvents /\ ghost.ev[j].duty >= MAX_DUTY_WINDOW)
            => /\ Events[j].description = "10-hour Rest"
               /\ Events[j].status = "sleeper_berth"

\* C4: current_driving_hours is at most 8 in every state; a DRIVING event is
\* appended only while it is strictly below 8, and no driving segment
\* carries it past 8.
C4_DrivingHoursWithinEight ==
    /\ simulation.current_driving_hours <= BREAK_REQUIRED_AFTER
    /\ \A j \in DOMAIN ghost.ev :
          (j <= NEvents /\ IsDriving(j))
            => /\ ghost.ev[j].driving < BREAK_REQUIRED_AFTER
               /\ ghost.ev[j].driving + ghost.ev[j].hours <= BREAK_REQUIRED_AFTER

\* a break taken at exactly 8 driving hours, and driving resumed after it
C4_Witness ==
    \E j \in DOMAIN ghost.ev :
        /\ j < NEvents
        /\ Events[j].description = "30-min Break"
        /\ ghost.ev[j].driving = BREAK_REQUIRED_AFTER
        /\ IsDriving(j + 1)
        /\ ghost.ev[j + 1].hours > 0

\* C5: after any prefix of the trip the number of fuel stops equals
\* floor(miles_driven / 1000), counted across the pickup boundary.
C5_FuelStopPerThousandMiles ==
    Len(simulation.fuel_stops) = simulation.miles_driven \div FUEL_INTERVAL_MILES

\* _generate_daily_logs has processed every event and not yet rounded
LogsCompiled == pc = "logs" /\ idx > NEvents

StatusKey(status) ==
    IF status = "off_duty" THEN "offDuty"
    ELSE IF status = "sleeper_berth" THEN "sleeperBerth"
    ELSE IF status = "driving" THEN "driving"
    ELSE "onDuty"

LogTotal(log) ==
    TAdd(TAdd(log.totals.offDuty, log.totals.sleeperBerth),
         TAdd(log.totals.driving, log.totals.onDuty))

RECURSIVE SumLogTotals(_, _)
SumLogTotals(logs, k) ==
    IF k > Len(logs) THEN TZero
    ELSE TAdd(LogTotal(logs[k]), SumLogTotals(logs, k + 1))

\* C6: the per-status totals of all daily logs, before rounding, add up to
\* the span from the first event's timestamp to the last event's.
C6_TotalsCoverTheSpan ==
    LogsCompiled =>
        SumLogTotals(daily_logs, 1) = TSub(Events[NEvents].time, Events[1].time)

\* a compiled log of three days: two events were split at midnight
C6_Witness ==
    /\ LogsCompiled
    /\ Len(daily_logs) >= 3
    /\ TLess(TZero, TSub(Events[NEvents].time, Events[1].time))

\* the gap from event j to its successor
Gap(j) == TSub(Events[j + 1].time, Events[j].time)
\* the code's test of line 469 fails: the successor is on another day
Crosses(j) == j < NEvents /\ Events[j + 1].day # Events[j].day

\* what event j credits to (day, status)
Credit(j, day, status) ==
    IF Events[j].status # status THEN TZero
    ELSE IF ~Crosses(j)
    THEN (IF Events[j].day = day THEN Gap(j) ELSE TZero)
    ELSE TAdd(IF Events[j].day = day
                THEN TSub(DayEnd(Events[j].time), Events[j].time) ELSE TZero,
              IF Events[j + 1].day = day
                THEN TSub(Gap(j), TSub(DayEnd(Events[j].time), Events[j].time)) ELSE TZero)

RECURSIVE SumCredit(_, _, _)
SumCredit(j, day, status) ==
    IF j >= NEvents THEN TZero
    ELSE TAdd(Credit(j, day, status), SumCredit(j + 1, day, status))

IsContinuation(entry) == Len(entry.location) = 2

\* C7: for every event whose successor is on a later day, the time up to
\* day end is credited to the event's day and the remainder to the next
\* day under the same status, and the next day's dutyStatusChanges starts
\* with exactly one continuation entry, time 00:00 and that status, before
\* every event of that day.
C7_MidnightSplit ==
    LogsCompiled =>
        /\ \A k \in DOMAIN daily_logs :
              \A status \in {"off_duty", "sleeper_berth", "driving", "on_duty"} :
                 daily_logs[k].totals[StatusKey(status)]
                    = SumCredit(1, daily_logs[k].day, status)
        /\ \A j \in 1..(NEvents - 1) :
              Crosses(j) =>
                 /\ Events[j + 1].day > Events[j].day
                 /\ \E k \in DOMAIN daily_logs :
                       /\ daily_logs[k].day = Events[j + 1].day
                       /\ LET ch == daily_logs[k].dutyStatusChanges
                          IN  /\ ch[1] = [ time |-> << 0, 0 >>,
                                           status |-> Events[j].status,
                                           location |-> << Events[j].description,
                                                           "(continued)" >> ]
                              /\ \A c \in 2..Len(ch) : ~IsContinuation(ch[c])
                              /\ Len(ch) >= 2
        /\ \A k \in DOMAIN daily_logs :
              (\E c \in DOMAIN daily_logs[k].dutyStatusChanges :
                    IsContinuation(daily_logs[k].dutyStatusChanges[c]))
                 => \E j \in 1..(NEvents - 1) :
                       Crosses(j) /\ Events[j + 1].day = daily_logs[k].day

\* a driving segment was split at midnight, with time on both sides
C7_Witness ==
    /\ LogsCompiled
    /\ \E j \in 1..(NEvents - 1) :
          /\ Crosses(j)
          /\ IsDriving(j)
          /\ TLess(TZero, TSub(DayEnd(Events[j].time), Events[j].time))
          /\ TLess(<< 0, 1 >>, TSub(Gap(j), TSub(DayEnd(Events[j].time), Events[j].time)))

\* C8: every event's day is the calendar date of its own timestamp minus
\* the calendar date of the trip start, plus 1; so the day indices are
\* non-decreasing along the event log.
C8_DayIsCalendarDate ==
    /\ \A j \in DOMAIN Events :
          Events[j].day
             = (Events[j].time[1] \div SecondsPerDay)
                  - (simulation.trip_start_time[1] \div SecondsPerDay) + 1
    /\ \A j \in 1..(NEvents - 1) : Events[j].day <= Events[j + 1].day

\* two events appended after a 10-hour rest that crossed midnight, on a
\* trip that did not start at midnight
C8_Witness ==
    /\ \E j \in 2..(NEvents - 1) :
          /\ Events[j - 1].description = "10-hour Rest"
          /\ Events[j].day = Events[j - 1].day + 1
          /\ Events[j + 1].day = Events[j].day
    /\ TLess(TZero, simulation.trip_start_time)

RECURSIVE DutyHours(_)
\* the hours of the DRIVING and ON_DUTY events j..
DutyHours(j) ==
    IF j > NEvents THEN 0
    ELSE (IF IsDriving(j) \/ IsOnDuty(j) THEN ghost.ev[j].hours ELSE 0) + DutyHours(j + 1)

RECURSIVE DrivingHours(_)
\* the hours of the DRIVING events j..
DrivingHours(j) ==
    IF j > NEvents THEN 0
    ELSE (IF IsDriving(j) THEN ghost.ev[j].hours ELSE 0) + DrivingHours(j + 1)

\* the ghost hours of an event are the hours the clock advanced after it
GhostHoursAreGaps ==
    /\ GhostParallel
    /\ \A j \in 1..(NEvents - 1) : Gap(j) = timedelta_hours(ghost.ev[j].hours)

\* C9: on return, used_70hr_cycle is the input current_cycle_hours plus the
\* duration of all DRIVING and ON_DUTY time of the run (sleeper-berth and
\* off-duty time excluded), and remaining_70hr_cycle is 70 minus it.
C9_CycleIsInputPlusDutyTime ==
    report.done =>
        /\ GhostHoursAreGaps
        /\ report.hos_summary.used_70hr_cycle
              = input.current_cycle_hours + DutyHours(1)
        /\ report.hos_summary.remaining_70hr_cycle
              = MAX_WEEKLY_HOURS - report.hos_summary.used_70hr_cycle

\* a returned trip with a rest, a break and a fuel stop in it
C9_Witness ==
    /\ report.done
    /\ Len(report.stops.rest_stops) >= 1
    /\ Len(report.stops.break_stops) >= 1
    /\ Len(report.stops.fuel_stops) >= 1
    /\ input.current_cycle_hours > 0

\* C10: on return, driving_time_used is the total DRIVING hours of the whole
\* run and on_duty_time_used the total driving + on-duty hours of the whole
\* run (both as reported, rounded to one decimal).
C10_SummaryTotalsWholeRun ==
    report.done =>
        /\ report.hos_summary.driving_time_used = RoundHours1(DrivingHours(1))
        /\ report.hos_summary.on_duty_time_used = RoundHours1(DutyHours(1))

(***************************************************************************)
(* The event log as a whole                                                *)
(***************************************************************************)
\* 'Trip Complete' is appended: the event log is final
TripLogged == pc \in {"logs", "done"}

Desc(j) == Events[j].description

\* the descriptions of the events _simulate_leg appends
LegDescriptions(leg_type) ==
    { IF leg_type = "to_pickup" THEN "Driving (to_pickup)" ELSE "Driving (to_dropoff)",
      "30-min Break", "10-hour Rest", "Fuel Stop" }

\* C11: in every final event log the events are, in this order: ON_DUTY
\* 'Trip Start' (first, or second after the pre-work event), the events of
\* leg 1, ON_DUTY 'Pickup', the events of leg 2, ON_DUTY 'Dropoff', OFF_DUTY
\* 'Trip Complete' (last); Pickup and Dropoff occur exactly once each, and
\* from each of them to the next event exactly 1.0 hour passes.
C11_EventOrder ==
    TripLogged =>
        \E t \in 1..2 : \E p \in (t + 1)..(NEvents - 2) :
            LET d == NEvents - 1
            IN  /\ t = 2 => Desc(1) = "Off Duty (Pre-work)"
                /\ Desc(t) = "Trip Start" /\ Events[t].status = "on_duty"
                /\ \A j \in (t + 1)..(p - 1) : Desc(j) \in LegDescriptions("to_pickup")
                /\ Desc(p) = "Pickup - Loading" /\ Events[p].status = "on_duty"
                /\ \A j \in (p + 1)..(d - 1) : Desc(j) \in LegDescriptions("to_dropoff")
                /\ Desc(d) = "Dropoff - Unloading" /\ Events[d].status = "on_duty"
                /\ Desc(NEvents) = "Trip Complete" /\ Events[NEvents].status = "off_duty"
                /\ Gap(p) = timedelta_hours(1 * HourUnits)
                /\ Gap(d) = timedelta_hours(1 * HourUnits)

\* a final log with a rest in each leg
C11_Witness ==
    /\ TripLogged
    /\ \E p \in 1..NEvents : \E j \in 1..(p - 1) : \E k \in (p + 1)..NEvents :
           /\ Desc(p) = "Pickup - Loading"
           /\ Desc(j) = "10-hour Rest"
           /\ Desc(k) = "10-hour Rest"

\* simulate_trip is past 'Trip Start'
TripStarted == pc \in {"leg", "complete", "logs", "done"}

IsPreWork(j) == Desc(j) = "Off Duty (Pre-work)" /\ Events[j].status = "off_duty"

\* C12: for every start_time the first event of the log is timestamped at
\* midnight of start_time's calendar date; an OFF_DUTY pre-work event is in
\* the log if and only if start_time is after midnight, it is then the first
\* event and the only one of its kind, and it covers exactly
\* [midnight, start_time); the 'Trip Start' event is timestamped exactly
\* start_time and has day index 1.
C12_LogStartsAtMidnight ==
    TripStarted =>
        LET start_time == StartTimeOf(input)
            midnight == MidnightOf(start_time)
            t == IF TLess(midnight, start_time) THEN 2 ELSE 1
        IN  /\ Events[1].time = midnight
            /\ TLess(midnight, start_time) <=> (\E j \in 1..NEvents : IsPreWork(j))
            /\ \A j \in 1..NEvents : IsPreWork(j) => j = 1 /\ Events[2].time = start_time
            /\ Desc(t) = "Trip Start"
            /\ Events[t].time = start_time
            /\ Events[t].day = 1
            /\ \A j \in 1..NEvents : Desc(j) = "Trip Start" => j = t

\* a log that starts with the pre-work period of a start at 16:00
C12_Witness ==
    /\ TripStarted
    /\ input.start_time.given
    /\ IsPreWork(1)
    /\ Gap(1) = timedelta_hours(16 * HourUnits)
    /\ Desc(2) = "Trip Start"

(***************************************************************************)
(* The counters around each event                                          *)
(***************************************************************************)
\* the counters when event j is appended
Before(j) == ghost.ev[j]
\* the counters when the activity of event j is over: those at the next
\* append, or the current ones
After(j) ==
    IF j < NEvents THEN ghost.ev[j + 1]
    ELSE GhostEntry(simulation, 0, 0)

\* the duration that goes with an on-duty stop
StopDuration(description) ==
    IF description = "30-min Break" THEN BREAK_DURATION
    ELSE IF description = "Fuel Stop" THEN FUEL_DURATION
    ELSE IF description = "Pickup - Loading" THEN PICKUP_DURATION
    ELSE DROPOFF_DURATION

\* C13: current_driving_hours is set to 0 by every 30-minute break and every
\* 10-hour rest and by nothing else (any other event leaves it unchanged, a
\* DRIVING event adds its hours); current_duty_hours is set to 0 only by a
\* 10-hour rest; a break, a fuel stop, the pickup and the dropoff each add
\* their duration to current_duty_hours; a fuel stop, the pickup and the
\* dropoff leave current_driving_hours unchanged.
C13_CounterResets ==
    TripStarted =>
        /\ GhostParallel
        /\ \A j \in 1..NEvents :
            /\ Desc(j) \in {"30-min Break", "10-hour Rest"} => After(j).driving = 0
            /\ Desc(j) = "10-hour Rest" => After(j).duty = 0
            /\ Desc(j) \in {"30-min Break", "Fuel Stop", "Pickup - Loading",
                            "Dropoff - Unloading"}
                  => After(j).duty = Before(j).duty + StopDuration(Desc(j))
            /\ Desc(j) \in {"Fuel Stop", "Pickup - Loading", "Dropoff - Unloading"}
                  => After(j).driving = Before(j).driving
            /\ Desc(j) \notin {"30-min Break", "10-hour Rest"}
                  => After(j).driving = Before(j).driving
                                          + (IF IsDriving(j) THEN Before(j).hours ELSE 0)
            /\ Desc(j) # "10-hour Rest" => After(j).duty >= Before(j).duty

\* a final log with a fuel stop, a pickup and a dropoff that each happen with
\* driving hours on the counter, a break and a rest
C13_Witness ==
    /\ TripLogged
    /\ \E j \in 1..NEvents : Desc(j) = "Fuel Stop" /\ Before(j).driving > 0
    /\ \E j \in 1..NEvents : Desc(j) = "Pickup - Loading" /\ Before(j).driving > 0
    /\ \E j \in 1..NEvents : Desc(j) = "Dropoff - Unloading" /\ Before(j).driving > 0
    /\ \E j \in 1..NEvents : Desc(j) = "30-min Break" /\ Before(j).duty > 0
    /\ \E j \in 1..NEvents : Desc(j) = "10-hour Rest" /\ Before(j).duty > 0

\* C14: along every execution of simulate_trip, current_cycle_hours never
\* decreases from one step to the next and is never reset: it is at least
\* the input current_cycle_hours in every state, and a 10-hour rest leaves
\* it unchanged.
C14_CycleNeverDecreases ==
    /\ [](TripStarted =>
            /\ simulation.current_cycle_hours >= input.current_cycle_hours
            /\ \A j \in 1..NEvents :
                  Desc(j) = "10-hour Rest" => After(j).cycle = Before(j).cycle)
    /\ [][TripStarted =>
            simulation'.current_cycle_hours >= simulation.current_cycle_hours]_vars

\* a rest was taken with hours on the cycle, after a non-zero input
C14_Witness ==
    /\ TripStarted
    /\ input.current_cycle_hours > 0
    /\ \E j \in 1..NEvents :
          Desc(j) = "10-hour Rest" /\ Before(j).cycle > input.current_cycle_hours

(***************************************************************************)
(* The 70-hour cycle                                                       *)
(***************************************************************************)
\* the event log of the same call with another current_cycle_hours
EventsWithCycle(c) ==
    SimulationOf([input EXCEPT !.current_cycle_hours = c], routes.leg1, routes.leg2).events

\* C15: for every value of current_cycle_hours (0, 65 that passes 70 during
\* the trip, and 70) simulate_trip returns, having driven both legs to
\* completion and emitted 'Trip Complete' as the last event; the event log is
\* the one of the same call with any other cycle value, and
\* remaining_70hr_cycle is 70 - used_70hr_cycle, also when that is negative.
C15_CycleNeverStopsTheTrip ==
    /\ <>(report.done)
    /\ [](report.done =>
            /\ Desc(NEvents) = "Trip Complete"
            /\ leg.remaining_distance = 0
            /\ simulation.miles_driven
                  = routes.leg1.distance_miles + routes.leg2.distance_miles
            /\ \A c \in { h * HourUnits : h \in CycleInputs } :
                  EventsWithCycle(c) = simulation.events
            /\ report.hos_summary.used_70hr_cycle = simulation.current_cycle_hours
            /\ report.hos_summary.remaining_70hr_cycle
                  = MAX_WEEKLY_HOURS - report.hos_summary.used_70hr_cycle)

\* a trip that starts with the cycle used up is reported with a negative
\* remainder, after driving through two rests
C15_Witness ==
    /\ report.done
    /\ input.current_cycle_hours >= MAX_WEEKLY_HOURS
    /\ report.hos_summary.remaining_70hr_cycle < 0
    /\ Len(simulation.rest_stops) >= 2

(***************************************************************************)
(* The clock                                                               *)
(***************************************************************************)
\* the point of lines 280-285: available_drive_time is computed
AtDrive == InLoop /\ PastBreakCheck

\* C16: current_time never moves backward during simulate_trip and the
\* event timestamps are non-decreasing along the log; available_drive_time
\* is strictly positive whenever _simulate_leg computes it (also after a
\* break that adds to the duty hours), and every DRIVING segment has a
\* strictly positive duration and distance.
C16_TimeMovesForward ==
    /\ [](TripStarted =>
            /\ \A j \in 1..(NEvents - 1) : TLeq(Events[j].time, Events[j + 1].time)
            /\ TLeq(Events[NEvents].time, simulation.current_time)
            /\ AtDrive => available_drive_time(simulation) > 0
            /\ \A j \in 1..NEvents :
                  IsDriving(j) =>
                      /\ Before(j).hours > 0
                      /\ Before(j).miles > 0
                      /\ TLess(Events[j].time,
                               IF j < NEvents THEN Events[j + 1].time
                                              ELSE simulation.current_time))
    /\ [][TripStarted => TLeq(simulation.current_time, simulation'.current_time)]_vars

\* available_drive_time is computed right after a break that was taken with
\* more than 9 hours on duty
C16_Witness ==
    /\ AtDrive
    /\ leg.phase = "drive"
    /\ Desc(NEvents) = "30-min Break"
    /\ Before(NEvents).duty > 9 * HourUnits
    /\ available_drive_time(simulation) = MAX_DUTY_WINDOW - simulation.current_duty_hours

(***************************************************************************)
(* The 900-mile leg                                                        *)
(***************************************************************************)
\* the indices of the events the current call of _simulate_leg appended
LegEvents == ghost.leg_first_event..NEvents

\* _simulate_leg has returned from a 900-mile leg that it entered with
\* duty hours, driving hours and miles all 0 (leg 1 of a trip)
NineHundredMileLegDone ==
    /\ LegReturns
    /\ leg.leg_type = "to_pickup"
    /\ leg.distance = 900 * MileUnits
    /\ ghost.leg_start_miles = 0

\* C17: a single 900-mile leg simulated from a fresh state (duty, driving and
\* miles all 0) at 55 mph has exactly one 30-minute break, taken with exactly
\* 8 driving hours on the counter, exactly one 10-hour rest, taken with
\* exactly 14 duty hours on the counter, and no fuel stop.
C17_NineHundredMiles ==
    NineHundredMileLegDone =>
        /\ Before(ghost.leg_first_event).duty = 0
        /\ Before(ghost.leg_first_event).driving = 0
        /\ Cardinality({ j \in LegEvents : Desc(j) = "30-min Break" }) = 1
        /\ \A j \in LegEvents :
              Desc(j) = "30-min Break" => Before(j).driving = 8 * HourUnits
        /\ Cardinality({ j \in LegEvents : Desc(j) = "10-hour Rest" }) = 1
        /\ \A j \in LegEvents :
              Desc(j) = "10-hour Rest" => Before(j).duty = 14 * HourUnits
        /\ \A j \in LegEvents : Desc(j) # "Fuel Stop"
        /\ simulation.fuel_stops = << >>

\* the 900 miles are driven
C17_Witness ==
    /\ NineHundredMileLegDone
    /\ simulation.miles_driven = 900 * MileUnits
    /\ Len(simulation.break_stops) = 1
    /\ Len(simulation.rest_stops) = 1

(***************************************************************************)
(* The wall clock                                                          *)
(***************************************************************************)
\* the report of the same call (same arguments, same provider responses)
\* made on wall-clock date w
ReportOn(w) == simulate_trip([input EXCEPT !.now_date = w])

\* C18: two runs of simulate_trip with identical arguments (start_time
\* given, or omitted as the request layer does) and identical provider
\* responses return identical reports, whatever the wall-clock date of each
\* run.
C18_SameReportAtAnyWallClock ==
    report.done => \A w \in WallClockDates : ReportOn(w) = report

(***************************************************************************)
(* The route provider                                                      *)
(***************************************************************************)
\* a coordinate in the frontend format
LatLng(coord) == [ lat |-> coord[2], lng |-> coord[1] ]

\* route is the fallback leg from origin to destination: the haversine
\* distance, duration = distance / 55, and a polyline of 21 points from the
\* origin to the destination
IsFallbackLeg(route, origin, destination) ==
    /\ route.distance_miles = _haversine_distance(origin, destination)
    /\ route.duration_hours * AVG_SPEED_MPH * MileUnits = route.distance_miles * HourUnits
    /\ Len(route.route_coordinates) = 21
    /\ route.route_coordinates[1] = LatLng(origin)
    /\ route.route_coordinates[21] = LatLng(destination)

\* C19: simulate_trip calls get_route exactly twice (current -> pickup, then
\* pickup -> dropoff); each get_route makes at most one provider request, and
\* when the provider fails it returns the fallback leg instead of raising,
\* so that simulate_trip does not fail because of the provider.
C19_ProviderFailureIsAbsorbed ==
    pc # "start" =>
        /\ pc # "failed"
        /\ routes.get_route_calls = 2
        /\ routes.provider_requests <= routes.get_route_calls
        /\ get_route(input.provider1, CurrentLocation, PickupLocation).requests <= 1
        /\ get_route(input.provider2, PickupLocation, DropoffLocation).requests <= 1
        /\ routes.leg1.route_coordinates[1] = LatLng(CurrentLocation)
        /\ routes.leg2.route_coordinates[1] = LatLng(PickupLocation)
        /\ IF input.provider1.ok
           THEN routes.leg1.distance_miles = input.provider1.distance
           ELSE IsFallbackLeg(routes.leg1, CurrentLocation, PickupLocation)
        /\ IF input.provider2.ok
           THEN routes.leg2.distance_miles = input.provider2.distance
           ELSE IsFallbackLeg(routes.leg2, PickupLocation, DropoffLocation)

\* a trip is reported that was simulated on two fallback legs
C19_Witness ==
    /\ report.done
    /\ ~input.provider1.ok
    /\ ~input.provider2.ok
    /\ simulation.miles_driven
          = _haversine_distance(CurrentLocation, PickupLocation)
              + _haversine_distance(PickupLocation, DropoffLocation)
    /\ Len(report.route.route_coordinates) = 42

(***************************************************************************)
(* The shift                                                               *)
(***************************************************************************)
RECURSIVE ShiftDriving(_)
\* the DRIVING hours of the shift of event j, up to and with event j: a
\* shift starts at 'Trip Start' or at the end of a 10-hour rest
ShiftDriving(j) ==
    IF j = 0 \/ Desc(j) = "10-hour Rest" THEN 0
    ELSE ShiftDriving(j - 1) + (IF IsDriving(j) THEN Before(j).hours ELSE 0)

\* C20: within one shift (from Trip Start or the end of a 10-hour rest up to
\* the next 10-hour rest or Trip Complete) the total DRIVING time never
\* exceeds MAX_DRIVING_HOURS = 11 hours, also when a 30-minute break falls
\* inside the shift.
C20_ShiftDrivingAtMostEleven ==
    TripStarted => \A j \in 1..NEvents : ShiftDriving(j) <= MAX_DRIVING_HOURS

(***************************************************************************)
(* The 14-hour window                                                      *)
(***************************************************************************)
\* C21: no DRIVING event is appended while current_duty_hours >= 14, and no
\* driving segment ends with current_duty_hours above 14: all driving lies
\* inside the 14-hour duty window that only a 10-hour rest reopens, also
\* after a fuel stop, a break or the pickup has pushed the duty hours to or
\* past 14.
C21_DrivingInsideDutyWindow ==
    TripStarted =>
        \A j \in 1..NEvents :
            IsDriving(j) =>
                /\ Before(j).duty < MAX_DUTY_WINDOW
                /\ After(j).duty = Before(j).duty + Before(j).hours
                /\ After(j).duty <= MAX_DUTY_WINDOW
                /\ \A k \in 1..(j - 1) :
                      After(k).duty >= MAX_DUTY_WINDOW
                          => \E r \in (k + 1)..(j - 1) : Desc(r) = "10-hour Rest"

\* a driving segment closes the window (duty = 14), the pickup pushes the
\* duty hours past it, and driving resumes only after a rest
C21_Witness ==
    /\ TripStarted
    /\ \E j \in 2..(NEvents - 2) :
          /\ IsDriving(j - 1)
          /\ After(j - 1).duty = MAX_DUTY_WINDOW
          /\ Desc(j) = "Pickup - Loading"
          /\ After(j).duty > MAX_DUTY_WINDOW
          /\ Desc(j + 1) = "10-hour Rest"
          /\ IsDriving(j + 2)

(***************************************************************************)
(* The loop of _simulate_leg                                               *)
(***************************************************************************)
\* C22: for every leg distance and every state in which a leg is entered,
\* the loop of _simulate_leg terminates: every iteration (a normal drive, or
\* a drive to the fuel stop followed by continue) decreases
\* remaining_distance by a positive amount, remaining_distance is never
\* below 0, and the loop exits with remaining_distance = 0.
C22_LegLoopTerminates ==
    /\ [](pc = "leg" =>
            /\ leg.remaining_distance >= 0
            /\ leg.remaining_distance + leg.distance_covered_this_leg = leg.distance)
    /\ [](LegReturns => leg.remaining_distance = 0)
    /\ [][DriveToFuel \/ DriveSegment =>
            /\ leg'.remaining_distance < leg.remaining_distance
            /\ leg'.remaining_distance >= 0]_vars
    /\ [][TakeRest \/ TakeBreak =>
            leg'.remaining_distance = leg.remaining_distance]_vars
    /\ [](pc = "leg" => <>LegReturns)

\* the loop of leg 2, entered with hours on the counters, has returned after
\* eight or more events, a drive to a fuel stop among them
C22_Witness ==
    /\ LegReturns
    /\ leg.leg_type = "to_dropoff"
    /\ NEvents - ghost.leg_first_event >= 7
    /\ Before(ghost.leg_first_event).duty > 0
    /\ \E j \in LegEvents : Desc(j) = "Fuel Stop"

(***************************************************************************)
(* The days of the daily logs                                              *)
(***************************************************************************)
\* C23: in the daily logs of any trip, the four per-status totals of every
\* calendar day except the last one (offDuty + sleeperBerth + driving +
\* onDuty, before the rounding) add up to exactly 24 hours, the first day
\* included.
C23_FullDaysSumTo24Hours ==
    LogsCompiled =>
        \A k \in 1..(Len(daily_logs) - 1) :
            LogTotal(daily_logs[k]) = << SecondsPerDay, 0 >>

\* C24: no event's interval to its successor spans more than one midnight,
\* so the day indices of consecutive events differ by at most 1; the
\* returned daily logs are exactly the days 1..N, each once and in ascending
\* order, where N is the day index of the 'Trip Complete' event, and
\* timeline.total_days = N.
C24_DaysAreConsecutive ==
    /\ TripStarted =>
          \A j \in 1..(NEvents - 1) :
              /\ DateOf(Events[j + 1].time) - DateOf(Events[j].time) \in {0, 1}
              /\ Events[j + 1].day - Events[j].day \in {0, 1}
    /\ report.done =>
          /\ Desc(NEvents) = "Trip Complete"
          /\ Len(report.logs) = Events[NEvents].day
          /\ \A k \in 1..Len(report.logs) : report.logs[k].day = k
          /\ report.timeline.total_days = Events[NEvents].day

\* a report of four days or more
C24_Witness ==
    /\ report.done
    /\ report.timeline.total_days >= 4
    /\ Events[NEvents].day = report.timeline.total_days

\* event j runs up to a successor that is timestamped exactly 00:00 of the
\* next day
EndsAtMidnight(j) ==
    /\ j < NEvents
    /\ Crosses(j)
    /\ Events[j + 1].time = MidnightOf(Events[j + 1].time)

\* C25: a '(continued)' entry is inserted into a day's log only when the
\* preceding event occupies a positive amount of time in that day: an event
\* whose successor is timestamped exactly 00:00 of the next day leaves no
\* continuation entry in the next day's log and credits no time to it.
C25_NoContinuationAtExactMidnight ==
    LogsCompiled =>
        \A j \in 1..(NEvents - 1) :
            EndsAtMidnight(j) =>
                LET log == LogOf(daily_logs, Events[j + 1].day)
                IN  /\ ~IsContinuation(log.dutyStatusChanges[1])
                    /\ Credit(j, Events[j + 1].day, Events[j].status) = TZero

====
